---- MODULE Spec2Model ----
(***************************************************************************)
(* cargo-dephell: the dependency walk of analysis.rs (analyze_repo and     *)
(* create_or_update_dependency) and the part of main.rs that consumes its  *)
(* result.  The package graph is guppy's PackageGraph: one link per        *)
(* ordered pair of packages, each link tagged dev_only or not.             *)
(***************************************************************************)
EXTENDS Naturals, FiniteSets, TLC

\* ------------------------------------------------------------------------
\* Bounds of the model
\* ------------------------------------------------------------------------

\* largest number of dependency links of a package graph
MaxLinks == 4

\* largest number of names given with -p or with -i
MaxListLen == 1

\* ------------------------------------------------------------------------
\* The packages of the graph
\* ------------------------------------------------------------------------

\* package ids: two workspace members and three third-party packages
Ids == {"A", "B", "X", "Y", "Z"}

\* package_graph.workspace().member_ids()
WorkspaceMemberIds == {"A", "B"}

\* package_graph.metadata(id): the fields of a package the analysis reads.
\* Y and Z are two versions of one crate; X has no repository.
Metadata ==
  [id \in Ids |->
     CASE id = "A" -> [name |-> "a", version |-> "0.1.0", repository |-> "None",
                       description |-> "None", manifest_path |-> "/ws/a/Cargo.toml"]
       [] id = "B" -> [name |-> "b", version |-> "0.1.0", repository |-> "None",
                       description |-> "None", manifest_path |-> "/ws/b/Cargo.toml"]
       [] id = "X" -> [name |-> "x", version |-> "1.0.0", repository |-> "None",
                       description |-> "x crate", manifest_path |-> "/reg/x-1.0.0/Cargo.toml"]
       [] id = "Y" -> [name |-> "y", version |-> "1.0.0", repository |-> "https://github.com/o/y",
                       description |-> "y crate", manifest_path |-> "/reg/y-1.0.0/Cargo.toml"]
       [] id = "Z" -> [name |-> "y", version |-> "2.0.0", repository |-> "https://github.com/o/y",
                       description |-> "y crate", manifest_path |-> "/reg/y-2.0.0/Cargo.toml"]]

\* the names a -p or -i argument may carry: the members' names and a name
\* that is no member's
ArgNames == {"a", "b", "c"}

\* Option<Vec<&str>>: None, or Some(list); clap gives a list at least one value
None == [some |-> FALSE, list |-> {}]

Some(l) == [some |-> TRUE, list |-> l]

ArgLists == {l \in SUBSET ArgNames : l # {} /\ Cardinality(l) <= MaxListLen}

VARIABLES
  links,                  \* package_graph: the set of DependencyLinks
  pc,                     \* position in main / analyze_repo
  packages,               \* Option<Vec<&str>>, the -p list
  to_ignore,              \* Option<Vec<&str>>, the -i list
  root_crates_to_analyze, \* HashSet<PackageId>
  main_dependencies,      \* HashSet<PackageId>
  analysis_result,        \* HashMap<PackageId, PackageRisk>
  todo,                   \* links the running for-loop has not yet visited
  result,                 \* what analyze_repo returned: "none", "Err", "Ok"
  output                  \* what main wrote: "none", "json", "html"

vars == <<links, pc, packages, to_ignore, root_crates_to_analyze,
          main_dependencies, analysis_result, todo, result, output>>

\* ------------------------------------------------------------------------
\* guppy's graph queries, as analysis.rs uses them
\* ------------------------------------------------------------------------

Link(f, t, d) == [from |-> f, to |-> t, dev_only |-> d]

\* targets of the links of E that leave a package of S
Targets(S, E) == {l.to : l \in {m \in E : m.from \in S}}

RECURSIVE Closure(_, _)
Closure(S, E) ==
  LET N == S \cup Targets(S, E)
  IN  IF N = S THEN S ELSE Closure(N, E)

\* package_graph.dep_links(id): the links that leave id
dep_links(id) == {l \in links : l.from = id}

\* package_graph.select_forward(ids): ids and everything reachable from them
\* over every link of the graph, dev-only links included
select_forward(ids) == Closure(ids, links)

\* select.into_iter_links(..): every link between two selected packages
into_iter_links(selected) == {l \in links : l.from \in selected /\ l.to \in selected}

\* ------------------------------------------------------------------------
\* PackageRisk and create_or_update_dependency
\* ------------------------------------------------------------------------

\* PackageRisk::default(), the fields the dependency walk and the closures
\* write (the line counts and popularity fields are filled from disk and
\* from the network and are left out)
PackageRiskDefault ==
  [name |-> "", versions |-> {}, repo |-> "None", description |-> "None",
   manifest_path |-> "", transitive_dependencies |-> {},
   root_importers |-> {}, exclusive_deps_introduced |-> {}]

\* the Entry::Vacant arm: a fresh record for the link's target
NewPackageRisk(to) ==
  [PackageRiskDefault EXCEPT
     !.name = Metadata[to].name,
     !.versions = {Metadata[to].version},
     !.repo = Metadata[to].repository,
     !.description = Metadata[to].description,
     !.manifest_path = Metadata[to].manifest_path]

\* create_or_update_dependency with an Occupied arm that stores a fresh
\* default record holding the version
create_or_update_dependency_overwrite(registry, dep_link) ==
  LET fresh == [PackageRiskDefault EXCEPT !.versions = {Metadata[dep_link.to].version}]
  IN  [id \in DOMAIN registry \cup {dep_link.to} |->
         IF id # dep_link.to THEN registry[id]
         ELSE IF id \in DOMAIN registry THEN fresh
         ELSE NewPackageRisk(dep_link.to)]

create_or_update_dependency(registry, dep_link) ==
  IF dep_link.to \in DOMAIN registry
    THEN [registry EXCEPT ![dep_link.to].versions = @ \cup {Metadata[dep_link.to].version}]
    ELSE [id \in DOMAIN registry \cup {dep_link.to} |->
            IF id = dep_link.to THEN NewPackageRisk(dep_link.to) ELSE registry[id]]

\* ------------------------------------------------------------------------
\* The metrics of the crate's metrics module
\* ------------------------------------------------------------------------

\* the links a dependency closure follows: not dev-only, not into a root crate
FollowedLinks == {l \in links : ~l.dev_only /\ l.to \notin WorkspaceMemberIds}

\* closure(n): what n reaches over one or more followed links
closure(n) == Closure(Targets({n}, FollowedLinks), FollowedLinks)

\* metrics::get_root_importers: the analyzed roots that import the package
get_root_importers(roots, package_id) ==
  {r \in roots : package_id \in closure(r)}

\* metrics::get_exclusive_deps: the transitive dependencies of the package
\* that no other main dependency is or reaches
get_exclusive_deps(roots, package_id) ==
  LET mains  == Targets(roots, FollowedLinks)
      others == UNION {closure(d) \cup {d} : d \in mains \ {package_id}}
  IN  closure(package_id) \ others

\* ------------------------------------------------------------------------
\* Initial state and the package graph
\* ------------------------------------------------------------------------

Init ==
  /\ links = {}
  /\ pc = "metadata"
  /\ packages = None
  /\ to_ignore = None
  /\ root_crates_to_analyze = {}
  /\ main_dependencies = {}
  /\ analysis_result = << >>
  /\ todo = {}
  /\ result = "none"
  /\ output = "none"

\* packages cargo resolves: the workspace members and what they reach
Resolved == WorkspaceMemberIds \cup {l.to : l \in links}

\* the links that are not dev-only
NormalLinks == {l \in links : ~l.dev_only}

\* cargo metadata resolves one more dependency of a resolved package.  Only a
\* workspace member's dev-dependencies are resolved, and cargo rejects a cycle
\* of links that are not dev-only.
AddLink(f, t, d) ==
  /\ pc = "metadata"
  /\ Cardinality(links) < MaxLinks
  /\ f \in Resolved
  /\ f # t
  /\ \A l \in links : ~(l.from = f /\ l.to = t)
  /\ d => f \in WorkspaceMemberIds
  /\ ~d => f \notin Closure({t}, NormalLinks)
  /\ links' = links \cup {Link(f, t, d)}
  /\ UNCHANGED <<pc, packages, to_ignore, root_crates_to_analyze,
                 main_dependencies, analysis_result, todo, result, output>>

\* ------------------------------------------------------------------------
\* analyze_repo
\* ------------------------------------------------------------------------

\* lines 149-171: the root crates kept by the -p list or, without one, by
\* the -i list
\* FilterRoots with the -i filter keeping the ignored names
FilterRootsKeepIgnored(p, i) ==
  IF p.some
    THEN {id \in WorkspaceMemberIds : Metadata[id].name \in p.list}
    ELSE IF i.some
      THEN {id \in WorkspaceMemberIds : Metadata[id].name \in i.list}
      ELSE WorkspaceMemberIds

FilterRoots(p, i) ==
  IF p.some
    THEN {id \in WorkspaceMemberIds : Metadata[id].name \in p.list}
    ELSE IF i.some
      THEN {id \in WorkspaceMemberIds : Metadata[id].name \notin i.list}
      ELSE WorkspaceMemberIds

\* ResolveRoots without the test for an empty root set
ResolveRootsNoEmptyCheck(p, i) ==
  /\ pc = "metadata"
  /\ ~(p.some /\ i.some)
  /\ packages' = p
  /\ to_ignore' = i
  /\ root_crates_to_analyze' = FilterRoots(p, i)
  /\ pc' = "direct"
  /\ todo' = UNION {dep_links(r) : r \in root_crates_to_analyze'}
  /\ UNCHANGED <<links, main_dependencies, analysis_result, result, output>>

\* main parses -p and -i (they conflict with each other) and calls
\* analyze_repo, which filters the root crates and returns an error when
\* none is left
ResolveRoots(p, i) ==
  /\ pc = "metadata"
  /\ ~(p.some /\ i.some)
  /\ packages' = p
  /\ to_ignore' = i
  /\ root_crates_to_analyze' = FilterRoots(p, i)
  /\ IF root_crates_to_analyze' = {}
       THEN /\ result' = "Err"
            /\ pc' = "returned"
            /\ todo' = {}
       ELSE /\ result' = result
            /\ pc' = "direct"
            /\ todo' = UNION {dep_links(r) : r \in root_crates_to_analyze'}
  /\ UNCHANGED <<links, main_dependencies, analysis_result, output>>

\* Skipped without the test for a dev-only link
SkippedRootTargetsOnly(dep_link) == dep_link.to \in WorkspaceMemberIds

\* Skipped with the root test made against the analyzed roots only
SkippedAnalyzedRoots(dep_link) ==
  dep_link.dev_only \/ dep_link.to \in root_crates_to_analyze

\* the test both loops make before they record a link
Skipped(dep_link) == dep_link.dev_only \/ dep_link.to \in WorkspaceMemberIds

\* one iteration of the loop over the analyzed roots' links (lines 186-200)
DirectLink(dep_link) ==
  /\ pc = "direct"
  /\ dep_link \in todo
  /\ todo' = todo \ {dep_link}
  /\ IF Skipped(dep_link)
       THEN UNCHANGED <<main_dependencies, analysis_result>>
       ELSE /\ main_dependencies' = main_dependencies \cup {dep_link.to}
            /\ analysis_result' = create_or_update_dependency(analysis_result, dep_link)
  /\ UNCHANGED <<links, pc, packages, to_ignore, root_crates_to_analyze, result, output>>

\* lines 203-206: the links of the forward selection of the main dependencies
SelectTransitive ==
  /\ pc = "direct"
  /\ todo = {}
  /\ todo' = into_iter_links(select_forward(main_dependencies))
  /\ pc' = "transitive"
  /\ UNCHANGED <<links, packages, to_ignore, root_crates_to_analyze,
                 main_dependencies, analysis_result, result, output>>

\* one iteration of the loop over the selected links (lines 208-218)
TransitiveLink(dep_link) ==
  /\ pc = "transitive"
  /\ dep_link \in todo
  /\ todo' = todo \ {dep_link}
  /\ IF Skipped(dep_link)
       THEN UNCHANGED analysis_result
       ELSE analysis_result' = create_or_update_dependency(analysis_result, dep_link)
  /\ UNCHANGED <<links, pc, packages, to_ignore, root_crates_to_analyze,
                 main_dependencies, result, output>>

\* TransitiveDependencies that stops at the package's own links
TransitiveDependenciesDirect(package_id) == {l.to : l \in dep_links(package_id)}

\* lines 247-252: the targets of every link of the forward selection of one package
TransitiveDependencies(package_id) ==
  {l.to : l \in into_iter_links(select_forward({package_id}))}

\* lines 245-310: the closures of every record, then Ok
Analyze ==
  /\ pc = "transitive"
  /\ todo = {}
  /\ analysis_result' =
       [id \in DOMAIN analysis_result |->
          [analysis_result[id] EXCEPT
             !.transitive_dependencies = TransitiveDependencies(id),
             !.root_importers = get_root_importers(root_crates_to_analyze, id),
             !.exclusive_deps_introduced = get_exclusive_deps(root_crates_to_analyze, id)]]
  /\ result' = "Ok"
  /\ pc' = "returned"
  /\ UNCHANGED <<links, packages, to_ignore, root_crates_to_analyze,
                 main_dependencies, todo, output>>

\* ------------------------------------------------------------------------
\* main, after analyze_repo returned
\* ------------------------------------------------------------------------

\* lines 167-215: an error is printed to stderr and main returns; a result is
\* printed as JSON or, with -o, rendered to the HTML file, unless the file
\* cannot be created
MainOutput(html_output, created) ==
  /\ pc = "returned"
  /\ pc' = "exit"
  /\ output' = IF result = "Err" THEN "none"
               ELSE IF ~html_output THEN "json"
               ELSE IF created THEN "html" ELSE "none"
  /\ UNCHANGED <<links, packages, to_ignore, root_crates_to_analyze,
                 main_dependencies, analysis_result, todo, result>>

Next ==
  \/ \E f \in Ids, t \in Ids, d \in BOOLEAN : AddLink(f, t, d)
  \/ \E p \in {None} \cup {Some(l) : l \in ArgLists},
        i \in {None} \cup {Some(l) : l \in ArgLists} : ResolveRoots(p, i)
  \/ \E l \in todo : DirectLink(l)
  \/ SelectTransitive
  \/ \E l \in todo : TransitiveLink(l)
  \/ Analyze
  \/ \E h \in BOOLEAN, c \in BOOLEAN : MainOutput(h, c)

Spec == Init /\ [][Next]_vars

\* ------------------------------------------------------------------------
\* Properties
\* ------------------------------------------------------------------------

\* analyze_repo returned Ok
Returned == result = "Ok"

\* the links the specification says a closure follows
NonDevNonRootLinks == {l \in links : ~l.dev_only /\ l.to \notin WorkspaceMemberIds}

\* what n reaches over one or more links of E
ReachedFrom(n, E) == Closure(Targets({n}, E), E)

C2_EmptyRootSetAborts ==
  (pc # "metadata" /\ root_crates_to_analyze = {}) =>
    /\ result = "Err"
    /\ todo = {}
    /\ main_dependencies = {}
    /\ DOMAIN analysis_result = {}
    /\ output = "none"

C2_Witness ==
  /\ pc = "exit"
  /\ packages = Some({"c"})
  /\ root_crates_to_analyze = {}
  /\ links # {}

\* C3: an identity that the analyzed roots reach, but only over paths that
\* hold a dev-only link, is no key of the returned registry.
C3_DevOnlyExclusion ==
  Returned =>
    \A n \in Closure(root_crates_to_analyze, links) :
      n \notin Closure(root_crates_to_analyze, NormalLinks) =>
        n \notin DOMAIN analysis_result

\* C4: the transitive_dependencies of a registry identity are exactly what it
\* reaches over one or more links that are neither dev-only nor into a root
\* crate.
C4_TransitiveDependenciesExact ==
  Returned =>
    \A n \in DOMAIN analysis_result :
      analysis_result[n].transitive_dependencies = ReachedFrom(n, NonDevNonRootLinks)

C6_MainDependencySet ==
  Returned =>
    /\ main_dependencies =
         {l.to : l \in {m \in links : /\ m.from \in root_crates_to_analyze
                                       /\ ~m.dev_only
                                       /\ m.to \notin WorkspaceMemberIds}}
    /\ main_dependencies \subseteq DOMAIN analysis_result

C6_Witness ==
  /\ Returned
  /\ main_dependencies # {}
  /\ \E l \in links : /\ l.from \in root_crates_to_analyze
                      /\ ~l.dev_only
                      /\ l.to \in WorkspaceMemberIds \ root_crates_to_analyze

\* C7: for registry identities a and b with a link a -> b that is not
\* dev-only and does not enter a root crate, b is a transitive dependency of
\* a and so is every transitive dependency of b.
C7_MonotonicClosure ==
  Returned =>
    \A a \in DOMAIN analysis_result, b \in DOMAIN analysis_result :
      (Link(a, b, FALSE) \in links /\ b \notin WorkspaceMemberIds) =>
        /\ b \in analysis_result[a].transitive_dependencies
        /\ analysis_result[b].transitive_dependencies
             \subseteq analysis_result[a].transitive_dependencies

C7_Witness ==
  /\ Returned
  /\ \E a \in DOMAIN analysis_result, b \in DOMAIN analysis_result :
       /\ Link(a, b, FALSE) \in links
       /\ analysis_result[b].transitive_dependencies # {}

\* C8: no registry identity is a member of its own transitive_dependencies.
C8_NotOwnTransitiveDependency ==
  Returned =>
    \A n \in DOMAIN analysis_result :
      n \notin analysis_result[n].transitive_dependencies

\* C9: the registry keys are exactly the identities the analyzed roots reach
\* over links that are neither dev-only nor into a root crate.
C9_RegistryKeys ==
  Returned =>
    DOMAIN analysis_result =
      UNION {ReachedFrom(r, NonDevNonRootLinks) : r \in root_crates_to_analyze}

\* C10: no step loses a registry key; a visit of a link adds at most the
\* record of the link's target, and for a target already present it changes
\* nothing but that record's versions, which gain the target's version.
C10_Frame ==
  /\ DOMAIN analysis_result \subseteq DOMAIN analysis_result'
  /\ (pc' = pc /\ pc \in {"direct", "transitive"}) =>
       \A dep_link \in todo \ todo' :
         /\ DOMAIN analysis_result' \subseteq DOMAIN analysis_result \cup {dep_link.to}
         /\ \A id \in DOMAIN analysis_result :
              IF id = dep_link.to /\ ~dep_link.dev_only
                THEN /\ analysis_result'[id].versions =
                          analysis_result[id].versions \cup {Metadata[id].version}
                     /\ analysis_result'[id].name = analysis_result[id].name
                     /\ analysis_result'[id].repo = analysis_result[id].repo
                     /\ analysis_result'[id].description = analysis_result[id].description
                     /\ analysis_result'[id].manifest_path = analysis_result[id].manifest_path
                ELSE analysis_result'[id] = analysis_result[id]

C10_RegistryFrame == [][C10_Frame]_vars

\* a link into an identity that an earlier link already recorded was visited
C10_Witness ==
  /\ pc = "transitive"
  /\ \E l1 \in links \ todo, l2 \in links \ todo :
       /\ l1 # l2
       /\ l1.to = l2.to
       /\ ~Skipped(l1) /\ ~Skipped(l2)
       /\ l1.from \in root_crates_to_analyze
       /\ l2.from \in select_forward(main_dependencies)
       /\ l1.to \in DOMAIN analysis_result

====
